---- MODULE Spec2Model ----
(***************************************************************************)
(* Model of the e-commerce demo services of poc-otel: the Go cart, product *)
(* and order services (in-memory stores) and the Node cart and order       *)
(* services (shared db.json), with the trace-context propagation layer.    *)
(* Prices are kept in cents so that totals are integers.                   *)
(***************************************************************************)
EXTENDS Integers, Sequences, FiniteSets, TLC

\* ------------------------------------------------------------------ bounds
\* Number of client requests of one run (each slot serves one request).
NumReqs == 3
\* Largest quantity a client asks for.
MaxQty == 2

ReqIds == 1..NumReqs
Users == {"u1", "u2"}
Quantities == 1..MaxQty
\* Product ids clients ask for: two of the catalogue and one unknown id.
AskedProductIds == {"1", "2", "9"}
Statuses == {"shipped"}

\* ------------------------------------------------------- product catalogue
ProductIds == {"1", "2", "3"}

products ==
    [id \in ProductIds |->
        CASE id = "1" -> [id |-> "1", name |-> "Gaming Laptop",
                          description |-> "High-performance gaming laptop",
                          price |-> 129999, category |-> "Electronics"]
          [] id = "2" -> [id |-> "2", name |-> "Smartphone",
                          description |-> "Latest model smartphone",
                          price |-> 79999, category |-> "Electronics"]
          [] id = "3" -> [id |-> "3", name |-> "Headphones",
                          description |-> "Wireless noise-canceling headphones",
                          price |-> 19999, category |-> "Electronics"]]
\* The order of the products in the list.
ProductOrder == <<"1", "2", "3">>
\* Categories clients ask for: the one of the catalogue and an unknown one.
AskedCategories == {"Electronics", "Books"}
NoProduct == [id |-> "", name |-> "", description |-> "", price |-> 0, category |-> ""]

\* ------------------------------------------------------------ trace context
\* A traceparent header: absent/malformed (valid = FALSE) or naming a trace.
NoTP == [valid |-> FALSE, trace |-> 0]
ClientTraces == {7}
TP(t) == [valid |-> TRUE, trace |-> t]

\* The services whose main() installs the W3C propagator (shared.InitTracer).
\* The Go product service calls its own initTracer, which installs none.
PropagatorConfigured(svc) == svc \in {"cart", "order"}

\* A trace id no header and no other handler invocation uses.
NewTraceId(r, k) == 1000 + 10 * r + k

\* otelmux middleware + ExtractTraceContextFromRequest + tracer.Start:
\* the trace of the span a handler of svc starts for a request with header tp.
ExtractTraceContextFromRequest(svc, tp, fresh) ==
    IF PropagatorConfigured(svc) /\ tp.valid THEN tp.trace ELSE fresh

\* InjectTraceContextToRequest: the traceparent written for a span of trace t.
InjectTraceContextToRequest(svc, t) ==
    IF PropagatorConfigured(svc) THEN TP(t) ELSE NoTP

\* An outbound HTTP call: none yet, or its target and the headers it carries.
NoCall == [to |-> "", tp |-> NoTP, auth |-> ""]
\* shared.CreateTracedRequest followed by Header.Set("Authorization", ...).
CreateTracedRequest(svc, to, t, auth) ==
    [to |-> to, tp |-> InjectTraceContextToRequest(svc, t), auth |-> auth]
\* http.Get / http.NewRequest: no context, only the headers set by hand.
PlainRequest(to, auth) == [to |-> to, tp |-> NoTP, auth |-> auth]

\* ------------------------------------------------------------------ auth
GoodAuth == "Bearer good"
\* shared.ValidateToken on the token part of the header.
ValidateToken(token) == token = "good"
\* The Authorization headers a client may send; "" is no header.
AuthHeaders ==
    {"", "good", "Basic good", "Bearer bad", "Bearer good extra", GoodAuth}
\* strings.Split(authHeader, " ") for these headers.
Split ==
    [h \in AuthHeaders |->
        CASE h = "" -> <<"">>
          [] h = "good" -> <<"good">>
          [] h = "Basic good" -> <<"Basic", "good">>
          [] h = "Bearer bad" -> <<"Bearer", "bad">>
          [] h = "Bearer good extra" -> <<"Bearer", "good", "extra">>
          [] h = GoodAuth -> <<"Bearer", "good">>]

\* A middleware that lets every request with an Authorization header pass.
AuthMiddlewareOk_AnyHeader(auth) == auth # ""

\* shared.AuthMiddleware, lines 46-66: the header must be present, split into
\* exactly "Bearer" and a token, and ValidateToken must accept the token.
AuthMiddlewareOk(auth) ==
    /\ auth # ""
    /\ Len(Split[auth]) = 2
    /\ Split[auth][1] = "Bearer"
    /\ ValidateToken(Split[auth][2])

\* The answer of a middleware: the status it writes, or NextHandler when it
\* calls next.ServeHTTP; body is the text it writes.
NextHandler == [status |-> 0, body |-> ""]
\* shared.CorsMiddleware: a preflight request is answered 200.
CorsMiddleware(method) ==
    IF method = "OPTIONS" THEN [status |-> 200, body |-> ""] ELSE NextHandler
\* shared.AuthMiddleware: 200 for a preflight request, 401 for a header that
\* is missing, malformed or holds a token ValidateToken rejects.
AuthMiddleware(method, auth) ==
    IF method = "OPTIONS" THEN [status |-> 200, body |-> ""]
    ELSE IF auth = "" THEN [status |-> 401, body |-> "Authorization header required"]
    ELSE IF ~AuthMiddlewareOk(auth)
         THEN [status |-> 401,
               body |-> IF Len(Split[auth]) # 2 \/ Split[auth][1] # "Bearer"
                        THEN "Invalid authorization format" ELSE "Invalid token"]
    ELSE NextHandler
\* The middlewares of the order service router, in the order of r.Use: every
\* route registered on the router is served behind both.
OrderMiddlewares(method, auth) ==
    IF CorsMiddleware(method) # NextHandler THEN CorsMiddleware(method)
    ELSE AuthMiddleware(method, auth)
\* cart-service verifyToken: any non-empty Authorization header passes.
verifyTokenOk(auth) == auth # ""

\* ------------------------------------------------------------------- logs
\* A span context: trace id and span id, 0 = the all-zero (unset) id.
NoSpanContext == [traceId |-> 0, spanId |-> 0]
LogTraceIds == {7, 8}
LogSpanIds == {3}
SpanContexts ==
    {NoSpanContext} \cup {[traceId |-> t, spanId |-> s] : t \in LogTraceIds, s \in LogSpanIds}
\* trace.SpanContext.IsValid: both ids are non-zero.
IsValid(sc) == sc.traceId # 0 /\ sc.spanId # 0

\* A string holding an id: the empty string (Go "", JS undefined), or the hex
\* text of the id; the text of the zero id is all zeros, not the empty string.
Undefined == [empty |-> TRUE, hex |-> 0]
IdString(id) == [empty |-> FALSE, hex |-> id]

\* json.Marshal of a string field: a field tagged omitempty is left out when
\* the string is empty, a field without the tag is always written.
\* JSON.stringify leaves a property out when its value is undefined.
MarshalOmitEmpty(str) == [present |-> ~str.empty, value |-> str]
MarshalField(str) == [present |-> TRUE, value |-> str]
JSONStringify(str) == [present |-> ~str.empty, value |-> str]

\* api-backend/otel/otel.go logWithContext: TraceID and SpanID are set only
\* for a valid span context and are tagged omitempty.
logWithContext(sc, message) ==
    [logger |-> "logWithContext", message |-> message, ctx |-> sc, req |-> 0,
     traceId |-> MarshalOmitEmpty(IF IsValid(sc) THEN IdString(sc.traceId) ELSE Undefined),
     spanId |-> MarshalOmitEmpty(IF IsValid(sc) THEN IdString(sc.spanId) ELSE Undefined)]

\* shared/logger.go Logger.Info: TraceID().String() and SpanID().String() of
\* whatever span the context holds, in fields without omitempty.
LoggerInfo(sc, message) ==
    [logger |-> "Logger.Info", message |-> message, ctx |-> sc, req |-> 0,
     traceId |-> MarshalField(IdString(sc.traceId)),
     spanId |-> MarshalField(IdString(sc.spanId))]

\* bak/backend-bak/server.js logging middleware: span?.spanContext().traceId of
\* the active span, undefined when there is none.
ActiveSpanId(sc, id) == IF IsValid(sc) THEN IdString(id) ELSE Undefined
MiddlewareLog(r, sc, message, traceId, spanId) ==
    [logger |-> "middleware", message |-> message, ctx |-> sc, req |-> r,
     traceId |-> JSONStringify(traceId), spanId |-> JSONStringify(spanId)]

\* ------------------------------------------------------------- data types
NoOrder == [id |-> 0, userId |-> "", items |-> <<>>, total |-> 0,
            status |-> "", createdAt |-> 0]
\* A cart of the carts map: the Items slice is its elements (items) and the
\* backing array holding them (arr, 0 = none); copies of the Cart struct share
\* the backing array.
NoCart == [exists |-> FALSE, items |-> <<>>, arr |-> 0]
\* The contents of db.json the handlers touch: carts, orders, sessions and the
\* seeded products.
NoDb == [carts |-> [u \in Users |-> NoCart], orders |-> <<>>, sessions |-> <<>>,
         products |-> products]

NoReq == [op |-> "idle", pc |-> "idle", user |-> "", pid |-> "", qty |-> 0,
          oid |-> 0, newStatus |-> "", auth |-> "", tp |-> NoTP,
          span |-> 0, out |-> NoCall, calleeSpan |-> 0, calleeSpan2 |-> 0,
          exists |-> FALSE, cart |-> <<>>, order |-> NoOrder,
          slice |-> <<>>, idx |-> 0, cleared |-> FALSE, status |-> 0,
          ctx |-> NoSpanContext, traceId |-> Undefined, spanId |-> Undefined,
          credsOk |-> FALSE, sessionId |-> 0, category |-> "", arr |-> 0,
          method |-> "", body |-> "", reached |-> FALSE]

VARIABLES
    impl,       \* the deployed stack: the Go services or the Node services
    hdrs,       \* the traceparent headers the clients of this run send
    db,         \* Node services: the shared file db.json (server.js:8)
    carts,      \* Go cart service: map userId -> Cart (main.go:48)
    mu,         \* Go cart service: holder of the write lock, 0 = free
    orders,     \* Go order service: map userId -> []Order (main.go:35)
    nextId,     \* source of uuid.New() / time.Now()
    reqs,       \* the requests: inputs, handler position, locals, response
    logs,       \* the structured log entries written so far, in order
    productStore, \* Go product service: the products variable (main.go:400)
    clients     \* what the clients of this run send: Authorization headers,
                \* and whether they send preflight (OPTIONS) requests

vars == <<impl, hdrs, db, carts, mu, orders, nextId, reqs, logs, productStore, clients>>

\* ---------------------------------------------------------------- helpers
RECURSIVE IndexOfProduct(_, _, _)
\* First index >= i of an item of items with productId pid, 0 if none.
IndexOfProduct(items, pid, i) ==
    IF i > Len(items) THEN 0
    ELSE IF items[i].productId = pid THEN i
    ELSE IndexOfProduct(items, pid, i + 1)

HasProduct(items, pid) == IndexOfProduct(items, pid, 1) # 0

RECURSIVE FilterOut(_, _)
\* removeFromCart: the items whose productId differs from pid, in order.
FilterOut(items, pid) ==
    IF items = <<>> THEN <<>>
    ELSE IF Head(items).productId = pid THEN FilterOut(Tail(items), pid)
    ELSE <<Head(items)>> \o FilterOut(Tail(items), pid)

\* A handler that appends the item without looking for its productId.
UpsertItem_AlwaysAppend(items, item) == Append(items, item)

\* addToCart, "Update or add item": replace quantity, price and name of the
\* first item with the same productId, else append the item.
UpsertItem(items, item) ==
    LET i == IndexOfProduct(items, item.productId, 1) IN
    IF i # 0
    THEN [items EXCEPT ![i] = [@ EXCEPT !.quantity = item.quantity,
                                        !.price = item.price,
                                        !.name = item.name]]
    ELSE Append(items, item)

\* Go product service getProduct: status and body for a product id.
getProduct(pid) ==
    IF pid \in DOMAIN productStore
    THEN [status |-> 200, product |-> productStore[pid]]
    ELSE [status |-> 404, product |-> NoProduct]

\* The capacity of a slice grown from empty by single appends: 0, 1, 2, 4, 4.
SliceCap(n) == IF n <= 2 THEN n ELSE 4
\* append(items, item) writes into the backing array of items while there is
\* spare capacity and allocates a new array when the slice is full.
AppendAllocates(items) == Len(items) = SliceCap(Len(items))

\* The backing array of the slice addToCart stores for request r: the array of
\* the stored cart when the item is updated in place or appended within the
\* capacity, a new array otherwise.
ArrayAfterUpsert(r, cart, item) ==
    IF cart.exists /\ (HasProduct(cart.items, item.productId) \/ ~AppendAllocates(cart.items))
    THEN cart.arr
    ELSE r

\* Elements 1..Len(view) of a slice after the elements of the shared backing
\* array were written: the view of another holder of the same array.
Overlay(view, written) ==
    [i \in 1..Len(view) |-> IF i <= Len(written) THEN written[i] ELSE view[i]]

\* The requests after a write of the elements `written` into backing array a:
\* every getCart that copied a Cart with that array sees the new elements.
ShareWrite(rs, a, written) ==
    [q \in ReqIds |->
        IF rs[q].op = "getCart" /\ rs[q].pc = "enrich" /\ rs[q].arr = a /\ a # 0
        THEN [rs[q] EXCEPT !.cart = Overlay(@, written)]
        ELSE rs[q]]

\* The stored carts after the same write: the cart whose Items use array a.
StoreWrite(cs, a, written) ==
    [u \in Users |->
        IF cs[u].exists /\ cs[u].arr = a /\ a # 0
        THEN [cs[u] EXCEPT !.items = Overlay(@, written)]
        ELSE cs[u]]

\* sync.RWMutex: Lock/RLock succeed only while no writer holds the mutex.
MuLock_NoExclusion == TRUE
MuLock == mu = 0

\* Clients that send the route's own method and a valid bearer token.
GoodClients == [auths |-> {GoodAuth}, preflight |-> {FALSE}]

Idle(r) == reqs[r].pc = "idle" /\ \A q \in ReqIds : q < r => reqs[q].pc # "idle"
GoIdle(r) == impl = "go" /\ Idle(r)
NodeIdle(r) == impl = "node" /\ Idle(r)

\* A request enters a handler of svc: inputs and the handler's span.
Enter(r, svc, op, k, fields) ==
    [fields EXCEPT !.op = op, !.auth = GoodAuth, !.reached = TRUE,
                   !.span = ExtractTraceContextFromRequest(svc, fields.tp, NewTraceId(r, k))]

Done(rec, code) == [rec EXCEPT !.pc = "done", !.status = code]

\* --------------------------------------------------------- Go cart service
\* getCart, lines 148-158: copy the cart under the read lock.
GetCartRead(r) ==
    /\ GoIdle(r)
    /\ MuLock
    /\ \E u \in Users, tp \in hdrs :
        LET rec == Enter(r, "cart", "getCart", 2,
                         [NoReq EXCEPT !.tp = tp, !.user = u]) IN
        reqs' = [reqs EXCEPT ![r] = [rec EXCEPT !.pc = "enrich",
                                                !.exists = carts[u].exists,
                                                !.cart = carts[u].items,
                                                !.arr = carts[u].arr]]
    /\ UNCHANGED <<clients, productStore, logs, impl, hdrs, db, carts, mu, orders, nextId>>

RECURSIVE EnrichItems(_, _)
\* getCart, lines 167-185: per item, fetch the product; on success overwrite
\* price and name, on a failed call or decode keep the item. ok[i] says whether
\* the i-th call succeeded.
EnrichItems(items, ok) ==
    IF items = <<>> THEN <<>>
    ELSE LET it == Head(items)
             p == getProduct(it.productId)
             new == IF Head(ok) /\ p.status = 200
                    THEN [it EXCEPT !.price = p.product.price, !.name = p.product.name]
                    ELSE it
         IN <<new>> \o EnrichItems(Tail(items), Tail(ok))

\* getCart, lines 160-190: product lookups by http.Get, then the response.
\* Lines 183-184 assign price and name to cart.Items[i], the elements of the
\* backing array copied with the Cart, outside the lock.
GetCartEnrich(r) ==
    /\ reqs[r].pc = "enrich"
    /\ reqs[r].op = "getCart"
    /\ \E ok \in [1..Len(reqs[r].cart) -> BOOLEAN] :
        LET rec == reqs[r]
            call == IF rec.cart = <<>> THEN rec.out ELSE PlainRequest("product", "")
            written == EnrichItems(rec.cart, ok)
        IN /\ reqs' = [ShareWrite(reqs, rec.arr, written) EXCEPT ![r] =
                   Done([rec EXCEPT !.cart = written, !.out = call], 200)]
           /\ carts' = StoreWrite(carts, rec.arr, written)
    /\ UNCHANGED <<clients, productStore, logs, impl, hdrs, db, mu, orders, nextId>>

\* addToCart, lines 193-270: decode the item (a body that cannot be decoded is
\* logged through logger.Info and answered 400), verify the product.
\* net = FALSE: the call to the product service fails.
AddToCartVerify(r) ==
    /\ GoIdle(r)
    /\ \E u \in Users, pid \in AskedProductIds, q \in Quantities,
          bodyOk \in BOOLEAN, net \in BOOLEAN, tp \in hdrs :
        LET rec == Enter(r, "cart", "addToCart", 2,
                         [NoReq EXCEPT !.tp = tp, !.user = u, !.pid = pid, !.qty = q])
            call == CreateTracedRequest("cart", "product", rec.span, rec.auth)
            sent == [rec EXCEPT !.out = call,
                                !.calleeSpan = ExtractTraceContextFromRequest(
                                    "product", call.tp, NewTraceId(r, 4))]
            p == getProduct(pid)
        IN /\ reqs' = [reqs EXCEPT ![r] =
                IF ~bodyOk THEN Done(rec, 400)
                ELSE IF ~net THEN Done([rec EXCEPT !.out = call], 500)
                ELSE IF p.status # 200 THEN Done(sent, 404)
                ELSE [sent EXCEPT !.pc = "lock",
                                  !.cart = <<[productId |-> pid, quantity |-> q,
                                              price |-> p.product.price,
                                              name |-> p.product.name]>>]]
           /\ logs' = IF ~bodyOk
                      THEN Append(logs, LoggerInfo(
                               [traceId |-> rec.span, spanId |-> NewTraceId(r, 3)],
                               "Failed to decode request"))
                      ELSE logs
    /\ UNCHANGED <<clients, productStore, impl, hdrs, db, carts, mu, orders, nextId>>

\* addToCart, lines 272-294: take the lock, read the cart, update the copy.
AddToCartLock(r) ==
    /\ reqs[r].pc = "lock"
    /\ reqs[r].op = "addToCart"
    /\ MuLock
    /\ mu' = r
    /\ reqs' = [reqs EXCEPT ![r] =
            [reqs[r] EXCEPT !.pc = "cs",
                            !.cart = UpsertItem(carts[reqs[r].user].items,
                                                reqs[r].cart[1]),
                            !.arr = ArrayAfterUpsert(r, carts[reqs[r].user],
                                                     reqs[r].cart[1])]]
    /\ UNCHANGED <<clients, productStore, logs, impl, hdrs, db, carts, orders, nextId>>

\* addToCart, lines 296-301: store the cart, unlock, answer with the cart.
AddToCartStore(r) ==
    /\ reqs[r].pc = "cs"
    /\ reqs[r].op = "addToCart"
    /\ carts' = [carts EXCEPT ![reqs[r].user] =
                    [exists |-> TRUE, items |-> reqs[r].cart, arr |-> reqs[r].arr]]
    /\ mu' = 0
    /\ reqs' = [ShareWrite(reqs, reqs[r].arr, reqs[r].cart) EXCEPT ![r] =
                    Done(reqs[r], 200)]
    /\ UNCHANGED <<clients, productStore, logs, impl, hdrs, db, orders, nextId>>

\* removeFromCart, lines 313-338: lock, look the cart up (404 when absent),
\* filter the items.
RemoveFromCartLock(r) ==
    /\ GoIdle(r)
    /\ MuLock
    /\ \E u \in Users, pid \in AskedProductIds, tp \in hdrs :
        LET rec == Enter(r, "cart", "removeFromCart", 2,
                         [NoReq EXCEPT !.tp = tp, !.user = u, !.pid = pid])
        IN IF ~carts[u].exists
           THEN /\ reqs' = [reqs EXCEPT ![r] = Done(rec, 404)]
                /\ mu' = mu
           ELSE /\ reqs' = [reqs EXCEPT ![r] =
                        [rec EXCEPT !.pc = "cs", !.exists = TRUE, !.arr = r,
                                    !.cart = FilterOut(carts[u].items, pid)]]
                /\ mu' = r
    /\ UNCHANGED <<clients, productStore, logs, impl, hdrs, db, carts, orders, nextId>>

\* removeFromCart, lines 339-344: store the cart, unlock, answer with it.
RemoveFromCartStore(r) ==
    /\ reqs[r].pc = "cs"
    /\ reqs[r].op = "removeFromCart"
    /\ carts' = [carts EXCEPT ![reqs[r].user] =
                    [exists |-> TRUE, items |-> reqs[r].cart, arr |-> reqs[r].arr]]
    /\ mu' = 0
    /\ reqs' = [reqs EXCEPT ![r] = Done(@, 200)]
    /\ UNCHANGED <<clients, productStore, logs, impl, hdrs, db, orders, nextId>>

\* clearCart, line 364: delete(carts, userID).
DeleteCart_KeepEntry(u) == carts
DeleteCart(u) == [carts EXCEPT ![u] = NoCart]

\* clearCart, lines 347-370: delete the cart under the lock.
ClearCart(r) ==
    /\ GoIdle(r)
    /\ MuLock
    /\ \E u \in Users, tp \in hdrs :
        LET rec == Enter(r, "cart", "clearCart", 2,
                         [NoReq EXCEPT !.tp = tp, !.user = u]) IN
        /\ carts' = DeleteCart(u)
        /\ reqs' = [reqs EXCEPT ![r] = Done(rec, 200)]
    /\ UNCHANGED <<clients, productStore, logs, impl, hdrs, db, mu, orders, nextId>>

\* -------------------------------------------------------- Go order service
RECURSIVE ToOrderItems(_)
\* checkout, lines 120-127: the cart JSON decoded into []OrderItem
\* (productId, quantity, price; the productName is not a field of OrderItem).
ToOrderItems(items) ==
    IF items = <<>> THEN <<>>
    ELSE <<[productId |-> Head(items).productId,
            quantity |-> Head(items).quantity,
            price |-> Head(items).price]>> \o ToOrderItems(Tail(items))

RECURSIVE CalcTotal(_)
\* checkout, lines 129-132: total += item.Price * float64(item.Quantity).
CalcTotal_IgnoreQuantity(items) ==
    IF items = <<>> THEN 0
    ELSE Head(items).price + CalcTotal(Tail(items))
CalcTotal(items) ==
    IF items = <<>> THEN 0
    ELSE Head(items).price * Head(items).quantity + CalcTotal(Tail(items))

\* The method of a request to a route registered for method m and OPTIONS.
Method(preflight, m) == IF preflight THEN "OPTIONS" ELSE m

\* A request a middleware answered itself: no handler was entered.
Stopped(op, method, auth, answer) ==
    Done([NoReq EXCEPT !.op = op, !.method = method, !.auth = auth,
                       !.body = answer.body], answer.status)

\* healthCheck of the order service, lines 63-68, registered on the router
\* after r.Use(shared.AuthMiddleware) (main, lines 45-49).
OrderHealthCheck(r) ==
    /\ GoIdle(r)
    /\ \E preflight \in clients.preflight, auth \in clients.auths :
        LET method == Method(preflight, "GET")
            answer == OrderMiddlewares(method, auth)
            rec == [NoReq EXCEPT !.op = "orderHealth", !.method = method,
                                 !.auth = auth, !.reached = TRUE]
        IN reqs' = [reqs EXCEPT ![r] =
                IF answer # NextHandler
                THEN Stopped("orderHealth", method, auth, answer)
                ELSE Done([rec EXCEPT !.body = "healthy"], 200)]
    /\ UNCHANGED <<clients, productStore, logs, impl, hdrs, db, carts, mu, orders, nextId>>

\* checkout, lines 87-118: fetch the cart from the cart service (its getCart
\* copies the cart under the read lock, writes the looked-up price and name
\* to the items and answers 200 with them).
\* net = FALSE: the call fails.
CheckoutFetch(r) ==
    /\ GoIdle(r)
    /\ \E u \in Users, net \in BOOLEAN, tp \in hdrs,
          preflight \in clients.preflight, auth \in clients.auths :
        LET method == Method(preflight, "POST")
            answer == OrderMiddlewares(method, auth)
            rec == [Enter(r, "order", "checkout", 1,
                          [NoReq EXCEPT !.tp = tp, !.user = u])
                        EXCEPT !.auth = auth, !.method = method]
            call == CreateTracedRequest("order", "cart", rec.span, rec.auth)
            sent == [rec EXCEPT !.out = call]
            inCart == [sent EXCEPT
                !.calleeSpan = ExtractTraceContextFromRequest(
                                   "cart", call.tp, NewTraceId(r, 2)),
                !.calleeSpan2 = IF carts[u].items = <<>> THEN 0
                                ELSE ExtractTraceContextFromRequest(
                                         "product", NoTP, NewTraceId(r, 4))]
        IN IF answer # NextHandler
           THEN /\ reqs' = [reqs EXCEPT ![r] = Stopped("checkout", method, auth, answer)]
                /\ carts' = carts
           ELSE IF ~net \/ ~verifyTokenOk(call.auth)
           THEN /\ reqs' = [reqs EXCEPT ![r] = Done(sent, 500)]
                /\ carts' = carts
           ELSE /\ MuLock
                /\ \E ok \in [1..Len(carts[u].items) -> BOOLEAN] :
                     LET written == EnrichItems(carts[u].items, ok) IN
                     /\ reqs' = [ShareWrite(reqs, carts[u].arr, written) EXCEPT ![r] =
                            [inCart EXCEPT !.pc = "fetched", !.cart = written]]
                     /\ carts' = StoreWrite(carts, carts[u].arr, written)
    /\ UNCHANGED <<clients, productStore, logs, impl, hdrs, db, mu, orders, nextId>>

\* checkout, lines 120-146: decode the items, build the order and evaluate
\* append(orders[userID], order).
CheckoutBuild(r) ==
    /\ reqs[r].pc = "fetched"
    /\ reqs[r].op = "checkout"
    /\ nextId' = nextId + 1
    /\ LET rec == reqs[r]
           items == ToOrderItems(rec.cart)
           order == [id |-> nextId + 1, userId |-> rec.user, items |-> items,
                     total |-> CalcTotal(items), status |-> "pending",
                     createdAt |-> nextId + 1]
       IN reqs' = [reqs EXCEPT ![r] =
               [rec EXCEPT !.pc = "built", !.order = order,
                           !.slice = Append(orders[rec.user], order)]]
    /\ UNCHANGED <<clients, productStore, logs, impl, hdrs, db, carts, mu, orders>>

\* checkout, line 146: the assignment orders[userID] = <the appended slice>.
CheckoutStore(r) ==
    /\ reqs[r].pc = "built"
    /\ reqs[r].op = "checkout"
    /\ orders' = [orders EXCEPT ![reqs[r].user] = reqs[r].slice]
    /\ reqs' = [reqs EXCEPT ![r] = [@ EXCEPT !.pc = "stored", !.slice = <<>>]]
    /\ UNCHANGED <<clients, productStore, logs, impl, hdrs, db, carts, mu, nextId>>

\* checkout, lines 155-161: an error of the clear call is only logged; the
\* answer is the order, with status 200, whether or not the cart was cleared.
CheckoutRespond_FailOnClearError(rec, served) ==
    IF served THEN Done([rec EXCEPT !.cleared = TRUE], 200)
    ELSE Done([rec EXCEPT !.order = NoOrder], 500)
CheckoutRespond(rec, served) == Done([rec EXCEPT !.cleared = served], 200)

\* checkout, lines 148-161: DELETE the cart (http.NewRequest with the
\* Authorization header), then answer. net = FALSE: the call fails.
CheckoutClear(r) ==
    /\ reqs[r].pc = "stored"
    /\ reqs[r].op = "checkout"
    /\ \E net \in BOOLEAN :
        LET rec == reqs[r]
            call == PlainRequest("cart", rec.auth)
            served == net /\ verifyTokenOk(call.auth)
        IN /\ served => MuLock
           /\ carts' = IF served THEN DeleteCart(rec.user) ELSE carts
           /\ reqs' = [reqs EXCEPT ![r] =
                   CheckoutRespond([rec EXCEPT !.out = call], served)]
    /\ UNCHANGED <<clients, productStore, logs, impl, hdrs, db, mu, orders, nextId>>

\* The users and indices at which orders holds an order with the given id.
OrderPlaces(oid) ==
    {p \in Users \X (1..NumReqs) :
        /\ p[2] <= Len(orders[p[1]])
        /\ orders[p[1]][p[2]].id = oid}

\* updateOrderStatus, lines 164-184 and 196-198: decode the body (400), search
\* the orders for the id (404 when absent).
UpdateOrderStatusFind(r) ==
    /\ GoIdle(r)
    /\ \E oid \in ReqIds, st \in Statuses, bodyOk \in BOOLEAN, tp \in hdrs,
          preflight \in clients.preflight, auth \in clients.auths :
        LET method == Method(preflight, "PUT")
            answer == OrderMiddlewares(method, auth)
            rec == [Enter(r, "order", "updateOrderStatus", 1,
                          [NoReq EXCEPT !.tp = tp, !.oid = oid, !.newStatus = st])
                        EXCEPT !.auth = auth, !.method = method]
        IN reqs' = [reqs EXCEPT ![r] =
                IF answer # NextHandler
                THEN Stopped("updateOrderStatus", method, auth, answer)
                ELSE IF ~bodyOk THEN Done(rec, 400)
                ELSE IF OrderPlaces(oid) = {} THEN Done(rec, 404)
                ELSE LET p == CHOOSE p \in OrderPlaces(oid) : TRUE IN
                     [rec EXCEPT !.pc = "found", !.user = p[1], !.idx = p[2]]]
    /\ UNCHANGED <<clients, productStore, logs, impl, hdrs, db, carts, mu, orders, nextId>>

\* updateOrderStatus, lines 185-186: orders[userID][i].Status = status, and
\* the answer is orders[userID][i]. An index past the slice panics: the
\* server recovers and the request gets no answer (status 0).
UpdateOrderStatusWrite(r) ==
    /\ reqs[r].pc = "found"
    /\ reqs[r].op = "updateOrderStatus"
    /\ LET rec == reqs[r] IN
       IF rec.idx <= Len(orders[rec.user])
       THEN /\ orders' = [orders EXCEPT ![rec.user][rec.idx].status = rec.newStatus]
            /\ reqs' = [reqs EXCEPT ![r] =
                    Done([rec EXCEPT !.order = orders'[rec.user][rec.idx]], 200)]
       ELSE /\ orders' = orders
            /\ reqs' = [reqs EXCEPT ![r] = Done(rec, 0)]
    /\ UNCHANGED <<clients, productStore, logs, impl, hdrs, db, carts, mu, nextId>>

\* getOrders, lines 70-85.
GetOrders(r) ==
    /\ GoIdle(r)
    /\ \E u \in Users, tp \in hdrs,
          preflight \in clients.preflight, auth \in clients.auths :
        LET method == Method(preflight, "GET")
            answer == OrderMiddlewares(method, auth)
            rec == [Enter(r, "order", "getOrders", 1,
                          [NoReq EXCEPT !.tp = tp, !.user = u])
                        EXCEPT !.auth = auth, !.method = method]
        IN reqs' = [reqs EXCEPT ![r] =
                IF answer # NextHandler
                THEN Stopped("getOrders", method, auth, answer)
                ELSE Done([rec EXCEPT !.slice = orders[u]], 200)]
    /\ UNCHANGED <<clients, productStore, logs, impl, hdrs, db, carts, mu, orders, nextId>>

\* ------------------------------------------------------ Go product service
\* getProduct handler behind otelmux, main.go lines 512-531 of the product
\* service: the span, then the product or 404.
GetProduct(r) ==
    /\ GoIdle(r)
    /\ \E pid \in AskedProductIds, tp \in hdrs :
        LET rec == Enter(r, "product", "getProduct", 4,
                         [NoReq EXCEPT !.tp = tp, !.pid = pid])
        IN reqs' = [reqs EXCEPT ![r] = Done(rec, getProduct(pid).status)]
    /\ UNCHANGED <<clients, productStore, logs, impl, hdrs, db, carts, mu, orders, nextId>>

RECURSIVE SelectProducts(_, _)
\* The products of the list whose id is in ids, in list order.
SelectProducts(order, ids) ==
    IF order = <<>> THEN <<>>
    ELSE (IF Head(order) \in ids THEN <<productStore[Head(order)]>> ELSE <<>>)
             \o SelectProducts(Tail(order), ids)

\* getProducts, lines 504-510: the whole list.
GetProducts(r) ==
    /\ GoIdle(r)
    /\ \E tp \in hdrs :
        LET rec == Enter(r, "product", "getProducts", 4, [NoReq EXCEPT !.tp = tp])
        IN reqs' = [reqs EXCEPT ![r] =
                Done([rec EXCEPT !.slice = SelectProducts(ProductOrder, ProductIds)], 200)]
    /\ UNCHANGED <<clients, productStore, logs, impl, hdrs, db, carts, mu, orders, nextId>>

\* getProductsByCategory, lines 533-555: copies of the products of the
\* category are appended to a new list; 404 when there is none.
GetProductsByCategory_FilterInPlace(r) ==
    /\ GoIdle(r)
    /\ \E tp \in hdrs, category \in AskedCategories :
        LET rec == Enter(r, "product", "getProductsByCategory", 4,
                         [NoReq EXCEPT !.tp = tp, !.category = category])
            ids == {id \in DOMAIN productStore : productStore[id].category = category}
        IN /\ productStore' = [id \in ids |-> productStore[id]]
           /\ reqs' = [reqs EXCEPT ![r] =
                IF ids = {} THEN Done(rec, 404)
                ELSE Done([rec EXCEPT !.slice = SelectProducts(ProductOrder, ids)], 200)]
    /\ UNCHANGED <<clients, logs, impl, hdrs, db, carts, mu, orders, nextId>>
GetProductsByCategory(r) ==
    /\ GoIdle(r)
    /\ \E tp \in hdrs, category \in AskedCategories :
        LET rec == Enter(r, "product", "getProductsByCategory", 4,
                         [NoReq EXCEPT !.tp = tp, !.category = category])
            ids == {id \in DOMAIN productStore : productStore[id].category = category}
        IN reqs' = [reqs EXCEPT ![r] =
                IF ids = {} THEN Done(rec, 404)
                ELSE Done([rec EXCEPT !.slice = SelectProducts(ProductOrder, ids)], 200)]
    /\ UNCHANGED <<clients, productStore, logs, impl, hdrs, db, carts, mu, orders, nextId>>

\* ------------------------------------------------------------ Node services
\* backend/shared/tracer.js exports an object with init and shutdown only:
\* it has no startSpan method.
TracerMethods == {"init", "shutdown"}

\* The first statement of every route handler of the Node cart and order
\* services is tracer.startSpan(...), outside the handler's try block.
\* Calling a method the tracer lacks throws, the async handler rejects, and
\* the request gets no answer, or a 500 from the framework's error handler.
NodeHandlerStart(rec) ==
    IF "startSpan" \in TracerMethods
    THEN {[rec EXCEPT !.pc = "running"]}
    ELSE {Done(rec, 0), Done(rec, 500)}

\* Node cart service routes (cart-service/server.js:36, 71, 115, 143).
NodeCartRoutes == {"getCart", "addToCart", "removeFromCart", "clearCart"}
\* Node order service routes (tracer.js:235, 288).
NodeOrderRoutes == {"checkout", "getOrders"}

NodeCartRequest(r) ==
    /\ NodeIdle(r)
    /\ \E op \in NodeCartRoutes, u \in Users, pid \in AskedProductIds,
          q \in Quantities :
        \E rec \in NodeHandlerStart([NoReq EXCEPT !.op = op, !.user = u,
                !.pid = IF op \in {"addToCart", "removeFromCart"} THEN pid ELSE "",
                !.qty = IF op = "addToCart" THEN q ELSE 0]) :
            reqs' = [reqs EXCEPT ![r] = rec]
    /\ UNCHANGED <<clients, productStore, logs, impl, hdrs, db, carts, mu, orders, nextId>>

NodeOrderRequest(r) ==
    /\ NodeIdle(r)
    /\ \E op \in NodeOrderRoutes, u \in Users :
        \E rec \in NodeHandlerStart([NoReq EXCEPT !.op = op, !.user = u]) :
            reqs' = [reqs EXCEPT ![r] = rec]
    /\ UNCHANGED <<clients, productStore, logs, impl, hdrs, db, carts, mu, orders, nextId>>

\* Node auth service routes (tracer.js:92, 126, 155): login with the body's
\* credentials, verify with the Authorization header, logout with the body's
\* sessionId. Each handler starts with tracer.startSpan, like the others.
NodeAuthRoutes == {"login", "verify", "logout"}

NodeAuthRequest(r) ==
    /\ NodeIdle(r)
    /\ \E op \in NodeAuthRoutes, credsOk \in BOOLEAN, sid \in 0..NumReqs :
        /\ (op = "login") = (sid = 0)
        /\ op # "login" => ~credsOk
        /\ \E rec \in NodeHandlerStart([NoReq EXCEPT !.op = op, !.credsOk = credsOk,
                                                     !.sessionId = sid]) :
             reqs' = [reqs EXCEPT ![r] = rec]
    /\ UNCHANGED <<clients, productStore, logs, impl, hdrs, db, carts, mu, orders, nextId>>

\* Node product service routes (product-service/server.js:56, 71, 96, 123):
\* the first three run verifyToken, whose first statement is tracer.startSpan,
\* the last starts with tracer.startSpan itself.
NodeProductRoutes == {"getProducts", "getProduct", "availability", "verify"}

NodeProductRequest(r) ==
    /\ NodeIdle(r)
    /\ \E op \in NodeProductRoutes, pid \in AskedProductIds :
        /\ op = "getProducts" => pid = "1"
        /\ \E rec \in NodeHandlerStart([NoReq EXCEPT !.op = op,
                    !.pid = IF op = "getProducts" THEN "" ELSE pid]) :
             reqs' = [reqs EXCEPT ![r] = rec]
    /\ UNCHANGED <<clients, productStore, logs, impl, hdrs, db, carts, mu, orders, nextId>>

Init ==
    /\ impl \in {"go", "node"}
    /\ hdrs = {NoTP}
    /\ db = NoDb
    /\ carts = [u \in Users |-> NoCart]
    /\ mu = 0
    /\ orders = [u \in Users |-> <<>>]
    /\ nextId = 0
    /\ reqs = [r \in ReqIds |-> NoReq]
    /\ logs = <<>>
    /\ productStore = products
    /\ clients = GoodClients

Next ==
    \E r \in ReqIds :
        \/ GetCartRead(r)
        \/ GetCartEnrich(r)
        \/ AddToCartVerify(r)
        \/ AddToCartLock(r)
        \/ AddToCartStore(r)
        \/ RemoveFromCartLock(r)
        \/ RemoveFromCartStore(r)
        \/ ClearCart(r)
        \/ CheckoutFetch(r)
        \/ CheckoutBuild(r)
        \/ CheckoutStore(r)
        \/ CheckoutClear(r)
        \/ UpdateOrderStatusFind(r)
        \/ UpdateOrderStatusWrite(r)
        \/ GetOrders(r)
        \/ NodeCartRequest(r)
        \/ NodeOrderRequest(r)
        \/ NodeAuthRequest(r)

Spec == Init /\ [][Next]_vars

\* Traced runs of the Go stack: two requests, with or without a traceparent.
TraceReqIds == {1, 2}

InitTrace ==
    /\ impl = "go"
    /\ hdrs = {NoTP} \cup {TP(t) : t \in ClientTraces}
    /\ db = NoDb
    /\ carts = [u \in Users |-> NoCart]
    /\ mu = 0
    /\ orders = [u \in Users |-> <<>>]
    /\ nextId = 0
    /\ reqs = [r \in ReqIds |-> NoReq]
    /\ logs = <<>>
    /\ productStore = products
    /\ clients = GoodClients

NextTrace ==
    \E r \in TraceReqIds :
        \/ GetCartRead(r)
        \/ GetCartEnrich(r)
        \/ AddToCartVerify(r)
        \/ AddToCartLock(r)
        \/ AddToCartStore(r)
        \/ CheckoutFetch(r)
        \/ CheckoutBuild(r)
        \/ CheckoutStore(r)
        \/ CheckoutClear(r)
        \/ GetProduct(r)

SpecTrace == InitTrace /\ [][NextTrace]_vars


\* Runs of all services, the product services included.
NextProducts ==
    \/ Next
    \/ \E r \in ReqIds :
        \/ GetProduct(r)
        \/ GetProducts(r)
        \/ GetProductsByCategory(r)
        \/ NodeProductRequest(r)

SpecProducts == Init /\ [][NextProducts]_vars

\* ----------------------------------------------- health checks, middleware
\* Cart service, main lines 123-126: /api/health is registered without
\* verifyToken, for GET only; the handler writes {"status": "healthy"}.
CartHealthCheck(r) ==
    /\ GoIdle(r)
    /\ \E auth \in clients.auths :
        reqs' = [reqs EXCEPT ![r] =
            Done([NoReq EXCEPT !.op = "cartHealth", !.method = "GET", !.auth = auth,
                               !.reached = TRUE, !.body = "healthy"], 200)]
    /\ UNCHANGED <<clients, productStore, logs, impl, hdrs, db, carts, mu, orders, nextId>>

\* Go product service, main lines 465-481 and healthCheck lines 497-502: the
\* router's only middleware besides otelmux answers preflight requests.
ProductHealthCheck(r) ==
    /\ GoIdle(r)
    /\ \E preflight \in clients.preflight, auth \in clients.auths :
        LET method == Method(preflight, "GET")
            answer == CorsMiddleware(method)
        IN reqs' = [reqs EXCEPT ![r] =
                IF answer # NextHandler
                THEN Stopped("productHealth", method, auth, answer)
                ELSE Done([NoReq EXCEPT !.op = "productHealth", !.method = method,
                                        !.auth = auth, !.reached = TRUE,
                                        !.body = "healthy"], 200)]
    /\ UNCHANGED <<clients, productStore, logs, impl, hdrs, db, carts, mu, orders, nextId>>

\* Node services: app.get('/api/health', ...) is registered before any
\* verifyToken and its handler does not use the tracer
\* (cart-service/server.js:21, product-service/server.js:45, tracer.js:220).
NodeHealthCheck(r) ==
    /\ NodeIdle(r)
    /\ \E op \in {"cartHealth", "productHealth", "orderHealth"},
          auth \in clients.auths :
        reqs' = [reqs EXCEPT ![r] =
            Done([NoReq EXCEPT !.op = op, !.method = "GET", !.auth = auth,
                               !.reached = TRUE, !.body = "healthy"], 200)]
    /\ UNCHANGED <<clients, productStore, logs, impl, hdrs, db, carts, mu, orders, nextId>>

\* The requests of the runs with arbitrary clients.
AuthReqIds == {1, 2}

\* Clients that also send preflight requests and any of the headers.
AnyClients == [auths |-> AuthHeaders, preflight |-> BOOLEAN]

InitAuth ==
    /\ impl \in {"go", "node"}
    /\ hdrs = {NoTP}
    /\ db = NoDb
    /\ carts = [u \in Users |-> NoCart]
    /\ mu = 0
    /\ orders = [u \in Users |-> <<>>]
    /\ nextId = 0
    /\ reqs = [r \in ReqIds |-> NoReq]
    /\ logs = <<>>
    /\ productStore = products
    /\ clients = AnyClients

\* The order service behind its middlewares, the cart it checks out, and the
\* health checks of the services.
NextAuth ==
    \E r \in AuthReqIds :
        \/ AddToCartVerify(r)
        \/ AddToCartLock(r)
        \/ AddToCartStore(r)
        \/ CheckoutFetch(r)
        \/ CheckoutBuild(r)
        \/ CheckoutStore(r)
        \/ CheckoutClear(r)
        \/ UpdateOrderStatusFind(r)
        \/ UpdateOrderStatusWrite(r)
        \/ GetOrders(r)
        \/ OrderHealthCheck(r)
        \/ CartHealthCheck(r)
        \/ ProductHealthCheck(r)
        \/ NodeHealthCheck(r)

SpecAuth == InitAuth /\ [][NextAuth]_vars

\* ------------------------------------------------------------------ logging
\* api-backend/otel/otel.go createTodo, lines 295-336: a log entry at the
\* start and one for the outcome, both with the context of the request (the
\* todo table itself is not part of the model).
CreateTodo(r) ==
    /\ Idle(r)
    /\ \E sc \in SpanContexts, code \in {200, 400, 500} :
        /\ logs' = logs \o
              << logWithContext(sc, "Starting todo creation"),
                 logWithContext(sc, CASE code = 400 -> "Invalid request body"
                                      [] code = 500 -> "Database error"
                                      [] OTHER -> "Todo created successfully") >>
        /\ reqs' = [reqs EXCEPT ![r] =
                Done([NoReq EXCEPT !.op = "createTodo", !.ctx = sc], code)]
    /\ UNCHANGED <<clients, productStore, impl, hdrs, db, carts, mu, orders, nextId>>

\* api-backend/otel/otel.go errorHandler, lines 520-527.
ErrorHandler(r) ==
    /\ Idle(r)
    /\ \E sc \in SpanContexts :
        /\ logs' = Append(logs, logWithContext(sc, "Triggered error endpoint"))
        /\ reqs' = [reqs EXCEPT ![r] =
                Done([NoReq EXCEPT !.op = "errorHandler", !.ctx = sc], 500)]
    /\ UNCHANGED <<clients, productStore, impl, hdrs, db, carts, mu, orders, nextId>>

\* A call of Logger.Info (shared/logger.go, lines 31-43) with the context sc.
LoggerInfoCall(r) ==
    /\ Idle(r)
    /\ \E sc \in SpanContexts :
        /\ logs' = Append(logs, LoggerInfo(sc, "info"))
        /\ reqs' = [reqs EXCEPT ![r] =
                Done([NoReq EXCEPT !.op = "Logger.Info", !.ctx = sc], 200)]
    /\ UNCHANGED <<clients, productStore, impl, hdrs, db, carts, mu, orders, nextId>>

\* bak/backend-bak/server.js logging middleware, lines 17-56: read the ids of
\* the active span into traceId and spanId, log the request, hook res.end.
LoggingMiddleware(r) ==
    /\ Idle(r)
    /\ \E sc \in SpanContexts :
        LET traceId == ActiveSpanId(sc, sc.traceId)
            spanId == ActiveSpanId(sc, sc.spanId)
        IN /\ logs' = Append(logs, MiddlewareLog(r, sc, "request", traceId, spanId))
           /\ reqs' = [reqs EXCEPT ![r] =
                   [NoReq EXCEPT !.op = "backend", !.pc = "handling", !.ctx = sc,
                                 !.traceId = traceId, !.spanId = spanId]]
    /\ UNCHANGED <<clients, productStore, impl, hdrs, db, carts, mu, orders, nextId>>

\* The hooked res.end, lines 39-53: log the response with the ids read when
\* the request came in, then end the response.
ResEnd(r) ==
    /\ reqs[r].op = "backend"
    /\ reqs[r].pc = "handling"
    /\ \E code \in {200, 500} :
        /\ logs' = Append(logs, MiddlewareLog(r, reqs[r].ctx, "response",
                                              reqs[r].traceId, reqs[r].spanId))
        /\ reqs' = [reqs EXCEPT ![r] = Done(@, code)]
    /\ UNCHANGED <<clients, productStore, impl, hdrs, db, carts, mu, orders, nextId>>

NextLog ==
    \E r \in ReqIds :
        \/ CreateTodo(r)
        \/ ErrorHandler(r)
        \/ LoggerInfoCall(r)
        \/ LoggingMiddleware(r)
        \/ ResEnd(r)

SpecLog == Init /\ [][NextLog]_vars

\* ------------------------------------------------------------------ claims
Finished(r, op, code) ==
    reqs[r].op = op /\ reqs[r].pc = "done" /\ reqs[r].status = code

\* Some request that removes items from the cart of u has entered its handler.
CartShrinkerStarted(u) ==
    \E q \in ReqIds :
        /\ reqs[q].op \in {"removeFromCart", "clearCart", "checkout"}
        /\ reqs[q].user = u

StoredOrderIds(u) == {orders[u][i].id : i \in 1..Len(orders[u])}

\* C1: In the Go cart service the writers of the carts map exclude each other
\* (at most one handler is between Lock and Unlock, and it is the holder of
\* the mutex), and no addToCart is lost: when two addToCart requests of one
\* user with different productIds have both completed with 200, and nothing
\* that removes items of that user's cart has run, the stored cart holds both
\* products.
C1_AddsSerialized ==
    /\ \A r1, r2 \in ReqIds :
        (reqs[r1].pc = "cs" /\ reqs[r2].pc = "cs") => (r1 = r2 /\ mu = r1)
    /\ \A r1, r2 \in ReqIds :
        ( /\ Finished(r1, "addToCart", 200)
          /\ Finished(r2, "addToCart", 200)
          /\ reqs[r1].user = reqs[r2].user
          /\ reqs[r1].pid # reqs[r2].pid
          /\ ~CartShrinkerStarted(reqs[r1].user) )
        => /\ HasProduct(carts[reqs[r1].user].items, reqs[r1].pid)
           /\ HasProduct(carts[reqs[r1].user].items, reqs[r2].pid)

C1_Witness ==
    \E r1, r2 \in ReqIds :
        /\ Finished(r1, "addToCart", 200)
        /\ Finished(r2, "addToCart", 200)
        /\ reqs[r1].user = reqs[r2].user
        /\ reqs[r1].pid # reqs[r2].pid
        /\ ~CartShrinkerStarted(reqs[r1].user)
        /\ Len(carts[reqs[r1].user].items) = 2

\* C2: The order store of the Go order service is guarded against concurrent
\* handlers: once two checkouts have both succeeded, both orders are in the
\* store.
C2_OrderStoreGuarded ==
    \A r1, r2 \in ReqIds :
        ( /\ r1 # r2
          /\ Finished(r1, "checkout", 200)
          /\ Finished(r2, "checkout", 200) )
        => /\ reqs[r1].order.id \in StoredOrderIds(reqs[r1].user)
           /\ reqs[r2].order.id \in StoredOrderIds(reqs[r2].user)

Moves(r, op, from, to) ==
    reqs[r].op = op /\ reqs[r].pc = from /\ reqs'[r].pc = to

\* The step in which a request enters the handler op and reaches pc to.
Enters(r, op, to) ==
    reqs[r].pc = "idle" /\ reqs'[r].op = op /\ reqs'[r].pc = to

\* The step in which checkout r answers with status code.
CheckoutAnswers(r, code) ==
    Moves(r, "checkout", "stored", "done") /\ reqs'[r].status = code

RECURSIVE SumPriceTimesQuantity(_, _)
\* The sum of price * quantity over items[i..].
SumPriceTimesQuantity(items, i) ==
    IF i > Len(items) THEN 0
    ELSE items[i].price * items[i].quantity + SumPriceTimesQuantity(items, i + 1)

\* Two item lists agree on productId, quantity and price, position by position.
SameItems(a, b) ==
    /\ Len(a) = Len(b)
    /\ \A i \in 1..Len(a) :
        /\ a[i].productId = b[i].productId
        /\ a[i].quantity = b[i].quantity
        /\ a[i].price = b[i].price

AllOrders ==
    UNION {{orders[u][i] : i \in 1..Len(orders[u])} : u \in Users}
        \cup {db.orders[i] : i \in 1..Len(db.orders)}

\* C5: The order a checkout creates has the items its cart fetch returned and
\* the sum of price * quantity over them as total; every stored order has a
\* total equal to that sum over its items; and no step changes the items or
\* the total of an order that stays stored.
C5_OrderIsSnapshot ==
    /\ [](\A r \in ReqIds :
            (reqs[r].op = "checkout" /\ reqs[r].order # NoOrder)
                => /\ SameItems(reqs[r].order.items, reqs[r].cart)
                   /\ reqs[r].order.total = SumPriceTimesQuantity(reqs[r].cart, 1)
                   /\ \A o \in AllOrders :
                        o.id = reqs[r].order.id
                            => /\ o.items = reqs[r].order.items
                               /\ o.total = reqs[r].order.total)
    /\ [](\A o \in AllOrders : o.total = SumPriceTimesQuantity(o.items, 1))
    /\ [][\A o \in AllOrders : \A n \in AllOrders' :
            o.id = n.id => (o.items = n.items /\ o.total = n.total)]_vars

\* An order of two units of a product is stored, the cart it came from was
\* cleared, and a later addToCart of the same user has changed the cart.
C5_Witness ==
    \E r, a \in ReqIds :
        /\ Finished(r, "checkout", 200)
        /\ reqs[r].cleared
        /\ reqs[r].order \in AllOrders
        /\ Len(reqs[r].order.items) = 1
        /\ reqs[r].order.items[1].quantity = 2
        /\ Finished(a, "addToCart", 200)
        /\ reqs[a].user = reqs[r].user
        /\ carts[reqs[r].user].items # <<>>

\* C6: The store of a succeeding checkout appends exactly its one order, with
\* an id no stored order has, the path userId and the initial status, to the
\* orders of that user and changes no other user's orders; a checkout whose
\* cart fetch fails answers with an error; and no other step of a checkout
\* changes the order store.
C6_CheckoutAppendsOneOrder ==
    [][\A r \in ReqIds :
        /\ Moves(r, "checkout", "built", "stored")
            => /\ orders'[reqs[r].user] = Append(orders[reqs[r].user], reqs[r].order)
               /\ \A u \in Users \ {reqs[r].user} : orders'[u] = orders[u]
               /\ \A o \in AllOrders : o.id # reqs[r].order.id
               /\ reqs[r].order.userId = reqs[r].user
               /\ reqs[r].order.status = "pending"
        /\ (reqs'[r].op = "checkout" /\ ~Moves(r, "checkout", "built", "stored")
                /\ reqs'[r] # reqs[r])
            => orders' = orders
        /\ (Enters(r, "checkout", "done") /\ reqs'[r].out.to = "cart")
            => (reqs'[r].status = 500 /\ reqs'[r].order = NoOrder)
      ]_vars

\* C7: The write of updateOrderStatus changes the status of exactly the order
\* with the requested id, nothing else of it and no other order, and answers
\* with that order; with an unknown id the request is answered 404 and no
\* order changes.
C7_OnlyStatusOfThatOrder ==
    [][\A r \in ReqIds :
        /\ Moves(r, "updateOrderStatus", "found", "done")
            => /\ reqs'[r].status = 200
               /\ reqs'[r].order.id = reqs[r].oid
               /\ reqs'[r].order.status = reqs[r].newStatus
               /\ \A u \in Users :
                    /\ Len(orders'[u]) = Len(orders[u])
                    /\ \A i \in 1..Len(orders[u]) :
                        IF orders[u][i].id = reqs[r].oid
                        THEN orders'[u][i] =
                                [orders[u][i] EXCEPT !.status = reqs[r].newStatus]
                        ELSE orders'[u][i] = orders[u][i]
        /\ Enters(r, "updateOrderStatus", "done")
            => /\ orders' = orders
               /\ reqs'[r].status \in {400, 404}
               /\ (reqs'[r].status = 404
                     => \A o \in AllOrders : o.id # reqs'[r].oid)
        /\ Enters(r, "updateOrderStatus", "found")
            => /\ orders' = orders
               /\ \E o \in AllOrders : o.id = reqs'[r].oid
      ]_vars

\* C8: When the clear call of a checkout fails after the order was stored, the
\* step leaves the order store as it is and the checkout answers 200 with the
\* order it created.
C8_ClearIsBestEffort ==
    [][\A r \in ReqIds :
        (Moves(r, "checkout", "stored", "done") /\ ~reqs'[r].cleared)
            => /\ orders' = orders
               /\ carts' = carts
               /\ reqs'[r].status = 200
               /\ reqs'[r].order = reqs[r].order
               /\ reqs'[r].order # NoOrder
               /\ SameItems(reqs'[r].order.items, reqs[r].cart)
      ]_vars

\* A checkout of a non-empty cart answered 200 although its clear call failed:
\* the order is stored and the cart still holds its items.
C8_Witness ==
    \E r \in ReqIds :
        /\ Finished(r, "checkout", 200)
        /\ ~reqs[r].cleared
        /\ reqs[r].order.items # <<>>
        /\ reqs[r].order \in AllOrders
        /\ carts[reqs[r].user].items # <<>>

\* C9: Every outbound call of a handler to a sibling service carries the trace
\* context of the handler's span and the Authorization header of the inbound
\* request.
C9_OutboundCallsCarryContext ==
    \A r \in ReqIds :
        reqs[r].out # NoCall
            => /\ reqs[r].out.tp = TP(reqs[r].span)
               /\ reqs[r].out.auth = reqs[r].auth

\* C10: The span of addToCart, getProduct and checkout belongs to the trace of
\* a valid traceparent header and to a new trace without one, and the spans of
\* the handlers a request reaches downstream belong to the trace of its span.
C10_InboundTraceContext ==
    \A r \in ReqIds :
        reqs[r].op \in {"addToCart", "getProduct", "checkout"}
            => /\ reqs[r].tp.valid => reqs[r].span = reqs[r].tp.trace
               /\ ~reqs[r].tp.valid => reqs[r].span \notin ClientTraces \cup {0}
               /\ reqs[r].calleeSpan # 0 => reqs[r].calleeSpan = reqs[r].span
               /\ reqs[r].calleeSpan2 # 0 => reqs[r].calleeSpan2 = reqs[r].span

LogEntries == {logs[i] : i \in 1..Len(logs)}

\* C11: Every log entry written for a valid span context carries the trace id
\* and the span id of that context, every entry written without a valid span
\* context carries neither a trace id nor a span id, and the request entry and
\* the response entry of one request carry the same ids.
C11_LogsCorrelated ==
    /\ \A e \in LogEntries :
        IF IsValid(e.ctx)
        THEN /\ e.traceId = [present |-> TRUE, value |-> IdString(e.ctx.traceId)]
             /\ e.spanId = [present |-> TRUE, value |-> IdString(e.ctx.spanId)]
        ELSE ~e.traceId.present /\ ~e.spanId.present
    /\ \A e, f \in LogEntries :
        (e.logger = "middleware" /\ f.logger = "middleware" /\ e.req = f.req)
            => (e.traceId = f.traceId /\ e.spanId = f.spanId)

SessionIds == {db.sessions[i].id : i \in 1..Len(db.sessions)}

\* C12: A login with valid credentials is answered 200 and has stored a
\* session, a login with invalid credentials is answered 401, and the stored
\* sessions are those of the successful logins that no logout has named.
C12_SessionLifecycle ==
    /\ \A r \in ReqIds :
        (reqs[r].op = "login" /\ reqs[r].pc = "done")
            => IF reqs[r].credsOk
               THEN reqs[r].status = 200 /\ db.sessions # <<>>
               ELSE reqs[r].status = 401
    /\ \A r \in ReqIds :
        (reqs[r].op = "logout" /\ reqs[r].pc = "done")
            => (reqs[r].status = 200 /\ reqs[r].sessionId \notin SessionIds)

\* C13: The products of the Go product service and the products of db.json
\* are, in every reachable state, the products of startup: the same set of
\* ids and for each id the same id, name, description, price and category.
C13_ProductsReadOnly ==
    /\ DOMAIN productStore = ProductIds
    /\ \A id \in ProductIds : productStore[id] = products[id]
    /\ db.products = products

\* Each product endpoint of the Go service has answered, after a cart was
\* filled and read.
C13_Witness ==
    /\ \E r \in ReqIds : Finished(r, "getProductsByCategory", 200) /\ Len(reqs[r].slice) = 3
    /\ \E r \in ReqIds : Finished(r, "addToCart", 200)
    /\ \E r \in ReqIds : Finished(r, "getCart", 200) /\ reqs[r].cart # <<>>

\* C14: A getCart that has released the read lock and goes on to read and
\* write the items it copied holds no backing array that a stored cart uses,
\* so nothing it touches can be touched by a concurrent addToCart or
\* removeFromCart.
C14_NoAccessOutsideLock ==
    \A r \in ReqIds :
        (reqs[r].op = "getCart" /\ reqs[r].pc = "enrich" /\ reqs[r].cart # <<>>)
            => \A u \in Users : carts[u].exists => carts[u].arr # reqs[r].arr

\* C15: Every step of a getCart leaves the stored carts and db.json as they
\* are, the elements it assigns price and name to are not the elements of a
\* stored cart, and a getCart for a user without a cart is answered 200 with
\* an empty item list.
C15_GetCartChangesNothing ==
    [][\A r \in ReqIds :
        /\ (reqs'[r].op = "getCart" /\ reqs'[r].pc # reqs[r].pc)
            => (carts' = carts /\ db' = db)
        /\ (Moves(r, "getCart", "enrich", "done") /\ reqs[r].cart # <<>>)
            => \A u \in Users : carts[u].exists => carts[u].arr # reqs[r].arr
        /\ (reqs[r].pc # "done" /\ reqs'[r].pc = "done" /\ reqs'[r].op = "getCart"
                /\ ~(IF impl = "go" THEN reqs'[r].exists
                     ELSE db.carts[reqs'[r].user].exists))
            => (reqs'[r].status = 200 /\ reqs'[r].cart = <<>>
                  /\ ~carts'[reqs'[r].user].exists
                  /\ ~db'.carts[reqs'[r].user].exists)
      ]_vars

\* C16: An addToCart that does not answer 200 answers 400, 500 or 404 and its
\* steps leave every stored cart as it is (an unknown product is never
\* answered 200); the stored cart changes in a step of addToCart only in the
\* store that follows a product call answered 200 and decoded, whose price and
\* name the stored item carries.
C16_CartChangesOnlyAfterVerify ==
    [][\A r \in ReqIds :
        /\ (reqs[r].pc # "done" /\ reqs'[r].pc = "done" /\ reqs'[r].op = "addToCart"
                /\ reqs'[r].status # 200)
            => /\ reqs'[r].status \in {400, 500, 404}
               /\ carts' = carts /\ db' = db
        /\ (reqs[r].pc # "done" /\ reqs'[r].pc = "done" /\ reqs'[r].op = "addToCart"
                /\ reqs'[r].pid \notin DOMAIN products)
            => reqs'[r].status \in {400, 500, 404}
        /\ (reqs'[r].op = "addToCart" /\ reqs'[r].pc # reqs[r].pc
                /\ (carts' # carts \/ db' # db))
            => /\ Moves(r, "addToCart", "cs", "done")
               /\ reqs[r].out.to = "product"
               /\ getProduct(reqs[r].pid).status = 200
               /\ \E i \in 1..Len(carts'[reqs[r].user].items) :
                    LET it == carts'[reqs[r].user].items[i] IN
                    /\ it.productId = reqs[r].pid
                    /\ it.price = getProduct(reqs[r].pid).product.price
                    /\ it.name = getProduct(reqs[r].pid).product.name
      ]_vars

\* The item lists of all stored carts: the Go carts map and db.json.
StoredItemLists ==
    {carts[u].items : u \in Users} \cup {db.carts[u].items : u \in Users}

\* C17: Every stored cart holds at most one item per productId; the store of
\* an addToCart for a productId already in the cart keeps the length of the
\* cart and sets that item's quantity to the requested quantity, the store for
\* a new productId appends exactly one item with the requested quantity, and
\* in both cases the other items stay as they are.
C17_OneItemPerProduct ==
    /\ [](\A items \in StoredItemLists : \A i, j \in 1..Len(items) :
            items[i].productId = items[j].productId => i = j)
    /\ [][\A r \in ReqIds :
            Moves(r, "addToCart", "cs", "done")
                => LET before == carts[reqs[r].user].items
                       after == carts'[reqs[r].user].items
                       at == {i \in 1..Len(before) : before[i].productId = reqs[r].pid}
                   IN /\ reqs'[r].status = 200
                      /\ reqs'[r].cart = after
                      /\ \A i \in (1..Len(before)) \ at : after[i] = before[i]
                      /\ IF at # {}
                         THEN /\ Len(after) = Len(before)
                              /\ \A i \in at : /\ after[i].productId = reqs[r].pid
                                               /\ after[i].quantity = reqs[r].qty
                         ELSE /\ Len(after) = Len(before) + 1
                              /\ after[Len(after)].productId = reqs[r].pid
                              /\ after[Len(after)].quantity = reqs[r].qty
       ]_vars

\* A cart of two products after three addToCart requests of one user: the
\* third named the product of the first with another quantity, and the cart
\* holds that product once, with the quantity of the third request.
C17_Witness ==
    \E a, b, c \in ReqIds : \E u \in Users :
        /\ a < b /\ b < c
        /\ \A r \in {a, b, c} : Finished(r, "addToCart", 200) /\ reqs[r].user = u
        /\ reqs[a].pid = reqs[c].pid /\ reqs[a].pid # reqs[b].pid
        /\ reqs[a].qty = 1 /\ reqs[c].qty = 2
        /\ Len(carts[u].items) = 2
        /\ carts[u].items[1].productId = reqs[c].pid
        /\ carts[u].items[1].quantity = 2
        /\ carts[u].items[2].productId = reqs[b].pid

\* C18: The store of a removeFromCart leaves in the cart of its user exactly
\* the items with another productId, in their order, and leaves the carts of
\* the other users as they are; removing the same productId from the result
\* changes nothing more; and a removeFromCart for a user without a cart is
\* answered 404 and changes no stored cart.
C18_RemoveExactlyThatProduct ==
    [][\A r \in ReqIds :
        /\ Moves(r, "removeFromCart", "cs", "done")
            => LET u == reqs[r].user
                   Keep(it) == it.productId # reqs[r].pid
               IN /\ reqs'[r].status = 200
                  /\ carts'[u].exists
                  /\ carts'[u].items = SelectSeq(carts[u].items, Keep)
                  /\ SelectSeq(carts'[u].items, Keep) = carts'[u].items
                  /\ \A v \in Users \ {u} : carts'[v] = carts[v]
                  /\ db' = db
        /\ (reqs[r].pc # "done" /\ reqs'[r].pc = "done"
                /\ reqs'[r].op = "removeFromCart"
                /\ ~(IF impl = "go" THEN reqs'[r].exists
                     ELSE db.carts[reqs'[r].user].exists))
            => /\ reqs'[r].status = 404
               /\ carts' = carts /\ db' = db
      ]_vars

\* The routes of the Go order service, all registered behind AuthMiddleware.
OrderOps == {"orderHealth", "getOrders", "checkout", "updateOrderStatus"}

\* C19: In the Go order service a handler is reached only by a request that
\* is not a preflight request and whose Authorization header is "Bearer"
\* followed by a token ValidateToken accepts; a request that does not reach
\* its handler was answered 200 if it is a preflight request and 401
\* otherwise, carries no trace of the handler, and the step that answered it
\* changed no store.
C19_HandlerOnlyBehindValidToken ==
    /\ [](\A r \in ReqIds :
            (impl = "go" /\ reqs[r].op \in OrderOps)
                => /\ reqs[r].reached
                        <=> (reqs[r].method # "OPTIONS" /\ reqs[r].auth = "Bearer good")
                   /\ ~reqs[r].reached
                        => /\ reqs[r].pc = "done"
                           /\ reqs[r].status = IF reqs[r].method = "OPTIONS" THEN 200 ELSE 401
                           /\ reqs[r].body # "healthy"
                           /\ reqs[r].span = 0
                           /\ reqs[r].out = NoCall
                           /\ reqs[r].order = NoOrder
                           /\ reqs[r].slice = <<>>)
    /\ [][\A r \in ReqIds :
            (impl = "go" /\ reqs[r].pc = "idle" /\ reqs'[r].op \in OrderOps
                /\ ~reqs'[r].reached)
                => /\ orders' = orders /\ carts' = carts /\ db' = db
                   /\ nextId' = nextId /\ mu' = mu /\ logs' = logs
       ]_vars

\* An order is stored, and a later updateOrderStatus whose header holds a
\* token ValidateToken rejects was answered 401 without reaching the handler;
\* the order still has the status it was created with.
C19_Witness ==
    \E a, b \in ReqIds :
        /\ Finished(a, "checkout", 200)
        /\ reqs[a].order \in AllOrders
        /\ Finished(b, "updateOrderStatus", 401)
        /\ reqs[b].auth = "Bearer bad"
        /\ reqs[b].body = "Invalid token"
        /\ ~reqs[b].reached
        /\ \A o \in AllOrders : o.status = "pending"

\* C20: A GET /api/health without an Authorization header is answered 200
\* with status healthy by the cart, product and order services.
C20_HealthNeedsNoAuth ==
    \A r \in ReqIds :
        ( /\ reqs[r].op \in {"cartHealth", "productHealth", "orderHealth"}
          /\ reqs[r].pc = "done"
          /\ reqs[r].method = "GET"
          /\ reqs[r].auth = "" )
        => reqs[r].status = 200 /\ reqs[r].body = "healthy"

\* C21: No stored order has an empty item list, and a checkout that fetched a
\* cart without items creates no order and is answered 400.
C21_NoEmptyOrder ==
    /\ \A o \in AllOrders : o.items # <<>>
    /\ \A r \in ReqIds :
        (reqs[r].op = "checkout" /\ reqs[r].pc \notin {"idle", "fetched"}
            /\ reqs[r].reached /\ reqs[r].out.to = "cart" /\ reqs[r].cart = <<>>
            /\ reqs[r].status # 500)
        => reqs[r].pc = "done" /\ reqs[r].status = 400 /\ reqs[r].order = NoOrder

\* C22: Every item that the cart clear of a checkout removes from the cart of
\* its user is an item of the order that checkout created: the same product
\* in the same quantity.
C22_ClearRemovesOnlyOrderedItems ==
    [][\A r \in ReqIds :
        (Moves(r, "checkout", "stored", "done") /\ reqs'[r].cleared)
            => LET before == carts[reqs[r].user].items
                   ordered == reqs[r].order.items
               IN \A i \in 1..Len(before) :
                    \E j \in 1..Len(ordered) :
                        /\ ordered[j].productId = before[i].productId
                        /\ ordered[j].quantity = before[i].quantity
      ]_vars

\* The product ids of a list of items.
ProductIdsOf(items) == {items[i].productId : i \in 1..Len(items)}

\* C23: Two checkouts of one user that overlap (each has created its order and
\* neither has cleared the cart yet) do not both hold items of the cart: their
\* orders have no product in common.
C23_CartBecomesOneOrder ==
    \A r1, r2 \in ReqIds :
        ( /\ r1 # r2
          /\ reqs[r1].op = "checkout" /\ reqs[r2].op = "checkout"
          /\ reqs[r1].user = reqs[r2].user
          /\ reqs[r1].pc \in {"built", "stored"}
          /\ reqs[r2].pc \in {"built", "stored"} )
        => ProductIdsOf(reqs[r1].order.items) \cap ProductIdsOf(reqs[r2].order.items) = {}
====
